---- MODULE Spec2Model ----
(***************************************************************************)
(* Model of sniff_and_trace/trace.py: the class Trace, its coordinate      *)
(* cache ip_locations, its negative set blacklisted_ips, the cache file    *)
(* ip_lat_lon_cache.csv and the traceroute loop of Trace.trace.            *)
(*                                                                         *)
(* Text (a file, a line, a field, an address) is a sequence of one         *)
(* character strings, so that formatting and parsing are computed as the   *)
(* code computes them.  A JSON/Python value is a record [t, n, s]: t is    *)
(* its type, n its number (an int as itself, a float in tenths) and s its  *)
(* characters when it is a str.  None, where a tuple is expected, is <<>>. *)
(***************************************************************************)
EXTENDS Integers, Sequences, FiniteSets, TLC

(***************************************************************************)
(* Bounds of the model.                                                    *)
(***************************************************************************)
MaxHops == 2

\* the largest byte count given to trace when the width of the line is examined
MaxBytes == 60

Addrs == {<<"a">>, <<"b">>}

(***************************************************************************)
(* Python values.                                                          *)
(***************************************************************************)
PyInt(k) == [t |-> "int", n |-> k, s |-> <<>>]
PyFloat(tenths) == [t |-> "float", n |-> tenths, s |-> <<>>]
PyStr(chars) == [t |-> "str", n |-> 0, s |-> chars]
PyNone == [t |-> "null", n |-> 0, s |-> <<>>]
Missing == [t |-> "absent", n |-> 0, s |-> <<>>]

NotFound == PyStr(<<"N", "o", "t", " ", "f", "o", "u", "n", "d">>)

IsNumber(v) == v.t \in {"int", "float"}

\* the number a value stands for, in tenths
Tenths(v) == IF v.t = "int" THEN 10 * v.n ELSE v.n

\* Python's == on two values: numbers compare by value, the rest by identity
PyEq(v, w) ==
    IF IsNumber(v) /\ IsNumber(w) THEN Tenths(v) = Tenths(w) ELSE v = w

(***************************************************************************)
(* str() of a value, as the f-string of write_to_file produces it.         *)
(***************************************************************************)
DigitChars == <<"0", "1", "2", "3", "4", "5", "6", "7", "8", "9">>

RECURSIVE Digits(_)
Digits(k) ==
    IF k < 10 THEN <<DigitChars[k + 1]>>
    ELSE Digits(k \div 10) \o <<DigitChars[(k % 10) + 1]>>

Abs(k) == IF k < 0 THEN -k ELSE k

Sign(k) == IF k < 0 THEN <<"-">> ELSE <<>>

Format(v) ==
    CASE v.t = "int" -> Sign(v.n) \o Digits(Abs(v.n))
      [] v.t = "float" ->
            Sign(v.n) \o Digits(Abs(v.n) \div 10) \o <<".">> \o Digits(Abs(v.n) % 10)
      [] v.t = "str" -> v.s
      [] OTHER -> <<"N", "o", "n", "e">>

(***************************************************************************)
(* float() of a text: <<>> when it raises ValueError, else <<tenths>>.     *)
(* Leading and trailing white space is stripped; then an optional sign,    *)
(* digits, and an optional point with digits.  Only the first fraction     *)
(* digit is kept: no text written by the model has more.                   *)
(***************************************************************************)
IsSpace(c) == c \in {" ", "\n"}

IsDigit(c) == \E d \in 1..10 : DigitChars[d] = c

DigitVal(c) == (CHOOSE d \in 1..10 : DigitChars[d] = c) - 1

RECURSIVE LStrip(_)
LStrip(x) == IF x # <<>> /\ IsSpace(Head(x)) THEN LStrip(Tail(x)) ELSE x

RECURSIVE RStrip(_)
RStrip(x) ==
    IF x # <<>> /\ IsSpace(x[Len(x)]) THEN RStrip(SubSeq(x, 1, Len(x) - 1)) ELSE x

Strip(x) == RStrip(LStrip(x))

AllDigits(x) == \A k \in 1..Len(x) : IsDigit(x[k])

RECURSIVE Number(_)
Number(x) == IF x = <<>> THEN 0 ELSE 10 * Number(SubSeq(x, 1, Len(x) - 1)) + DigitVal(x[Len(x)])

\* the position of the first c in x, or 0
Find(x, c) == IF \E k \in 1..Len(x) : x[k] = c
              THEN CHOOSE k \in 1..Len(x) : x[k] = c /\ \A j \in 1..(k - 1) : x[j] # c
              ELSE 0

Unsigned(x) ==
    LET p == Find(x, ".")
        whole == IF p = 0 THEN x ELSE SubSeq(x, 1, p - 1)
        frac == IF p = 0 THEN <<>> ELSE SubSeq(x, p + 1, Len(x))
    IN  IF ~AllDigits(whole) \/ ~AllDigits(frac) \/ (whole = <<>> /\ frac = <<>>)
        THEN <<>>
        ELSE <<10 * Number(whole) + (IF frac = <<>> THEN 0 ELSE DigitVal(frac[1]))>>

ParseFloat(x) ==
    LET y == Strip(x)
        neg == y # <<>> /\ Head(y) = "-"
        u == Unsigned(IF y # <<>> /\ Head(y) \in {"-", "+"} THEN Tail(y) ELSE y)
    IN  IF u = <<>> THEN <<>> ELSE IF neg THEN <<-u[1]>> ELSE u

(***************************************************************************)
(* str.split(sep) and the lines of a text (each line keeps its "\n").      *)
(***************************************************************************)
RECURSIVE Split(_, _)
Split(x, c) ==
    LET p == Find(x, c)
    IN  IF p = 0 THEN <<x>>
        ELSE <<SubSeq(x, 1, p - 1)>> \o Split(SubSeq(x, p + 1, Len(x)), c)

RECURSIVE Lines(_)
Lines(x) ==
    LET p == Find(x, "\n")
    IN  IF x = <<>> THEN <<>>
        ELSE IF p = 0 THEN <<x>>
        ELSE <<SubSeq(x, 1, p)>> \o Lines(SubSeq(x, p + 1, Len(x)))

(***************************************************************************)
(* A dict keeps its keys in insertion order: a sequence of [ip, loc] with  *)
(* distinct ip.  loc is the tuple (lat, lon).                              *)
(***************************************************************************)
Keys(d) == {d[k].ip : k \in 1..Len(d)}

Get(d, a) == d[CHOOSE k \in 1..Len(d) : d[k].ip = a].loc

Put(d, a, loc) ==
    IF a \in Keys(d)
    THEN [k \in 1..Len(d) |-> IF d[k].ip = a THEN [ip |-> a, loc |-> loc] ELSE d[k]]
    ELSE Append(d, [ip |-> a, loc |-> loc])

\* Python's == on two tuples and on two dicts
TupleEq(x, y) == Len(x) = Len(y) /\ \A k \in 1..Len(x) : PyEq(x[k], y[k])

DictEq(d, e) == Keys(d) = Keys(e) /\ \A a \in Keys(d) : TupleEq(Get(d, a), Get(e, a))

(***************************************************************************)
(* The answers of the geolocation provider.  ok = FALSE is a failure of    *)
(* urlopen, read, decode or json.loads; otherwise lat and lon are the      *)
(* values of the fields 'latitude' and 'longitude', Missing when the       *)
(* object has no such field.                                               *)
(***************************************************************************)
Answer(lat, lon) == [ok |-> TRUE, lat |-> lat, lon |-> lon]

Failure == [ok |-> FALSE, lat |-> Missing, lon |-> Missing]

Answers ==
    { Failure,
      Answer(Missing, Missing),
      Answer(PyFloat(45), Missing),
      Answer(PyNone, PyNone),
      Answer(NotFound, NotFound),
      Answer(PyFloat(45), NotFound),
      Answer(PyNone, PyFloat(-75)),
      Answer(PyFloat(45), PyFloat(-75)),
      Answer(PyInt(3), PyInt(-12)),
      Answer(PyStr(<<"n", "/", "a">>), PyFloat(-75)) }

(***************************************************************************)
(* State.                                                                  *)
(*   ip_locations, blacklisted_ips   the fields of the Trace object        *)
(*   cache      the file cache_name: <<>> when it does not exist, else     *)
(*              <<text>>                                                   *)
(*   res        what the last call of get_lat_lon returned                 *)
(*   net        the addresses looked up at the provider, in order, during  *)
(*              the current (or last) call of get_lat_lon or trace         *)
(*   last       the last operation: its name, how it ended ("" normally,   *)
(*              "logged" when an exception was caught and logged) and, for *)
(*              a load, whether ip_locations was empty before it           *)
(*   first      for each address, the first coordinate get_lat_lon         *)
(*              returned for it in this process (<<>> when none yet)       *)
(*   failed     the addresses whose lookup failed in this process          *)
(*   pc         where trace is: "idle" outside a call, "hops" in the loop  *)
(*              over the replies, "figure" after the lookup of ip          *)
(*   ip, display_name, ans, lats, lons, text, received, count              *)
(*              the parameters and locals of trace; ans is the replies     *)
(*              the loop has yet to visit                                  *)
(*   fig        the figure the last call of trace returned, NoFig when     *)
(*              the last operation returned none                           *)
(*   asked      the destination, the display_name and the replies of the   *)
(*              probe of the current (or last) call of trace, NoAsk when   *)
(*              there is none or its probe raised                          *)
(*   calls      the calls of get_lat_lon of the current (or last)          *)
(*              operation, in order: the address and what was returned     *)
(***************************************************************************)
VARIABLES ip_locations, blacklisted_ips, cache, res, net, last, first, failed,
          pc, ip, display_name, ans, lats, lons, text, received, count, fig,
          asked, calls

frame == <<pc, ip, display_name, ans, lats, lons, text, received, count>>

vars == <<ip_locations, blacklisted_ips, cache, res, net, last, first, failed, frame, fig,
          asked, calls>>

NoAsk == [dst |-> <<>>, names |-> FALSE, replies |-> <<>>]

NoFig == [mode |-> "", lon |-> <<>>, lat |-> <<>>, text |-> <<>>, name |-> <<>>, width2 |-> 0]

\* the locals of trace outside a call
NoFrame == <<"idle", <<>>, FALSE, <<>>, <<>>, <<>>, <<>>, {}, 1>>

Return ==
    /\ pc' = "idle"
    /\ ip' = <<>>
    /\ display_name' = FALSE
    /\ ans' = <<>>
    /\ lats' = <<>>
    /\ lons' = <<>>
    /\ text' = <<>>
    /\ received' = {}
    /\ count' = 1

RECURSIVE SeqsUpTo(_, _)
SeqsUpTo(S, k) ==
    IF k = 0 THEN {<<>>}
    ELSE LET T == SeqsUpTo(S, k - 1) IN T \cup {Append(x, y) : x \in T, y \in S}

\* the inputs of trace
Replies == SeqsUpTo(Addrs, MaxHops)

Hits == {3}

ByteCounts == {0, 1, 8}

Hostnames == {<<>>, <<<<"h">>>>}

Op(name, end, fresh) == [op |-> name, end |-> end, fresh |-> fresh]

\* Trace.__init__, in a process that has done nothing yet
New ==
    /\ ip_locations = <<>>
    /\ blacklisted_ips = {}
    /\ res = <<>>
    /\ net = <<>>
    /\ last = Op("init", "", TRUE)
    /\ first = [a \in Addrs |-> <<>>]
    /\ failed = {}
    /\ pc = "idle"
    /\ ip = <<>>
    /\ display_name = FALSE
    /\ ans = <<>>
    /\ lats = <<>>
    /\ lons = <<>>
    /\ text = <<>>
    /\ received = {}
    /\ count = 1
    /\ fig = NoFig
    /\ asked = NoAsk
    /\ calls = <<>>

Init == New /\ cache = <<>>

(***************************************************************************)
(* read_from_file                                                          *)
(***************************************************************************)
RECURSIVE ReadRows(_, _)
ReadRows(d, lines) ==
    IF lines = <<>> THEN [d |-> d, ok |-> TRUE]
    ELSE LET f == Split(Head(lines), ",")
         IN  IF Len(f) # 3 THEN [d |-> d, ok |-> FALSE]
             ELSE LET lat == ParseFloat(f[2])
                      lon == ParseFloat(f[3])
                  IN  IF lat = <<>> \/ lon = <<>> THEN [d |-> d, ok |-> FALSE]
                      ELSE ReadRows(Put(d, f[1], <<PyFloat(lat[1]), PyFloat(lon[1])>>),
                                    Tail(lines))

\* the dict after the with-block, and whether the block ended without exception
ReadCache(d, content) ==
    LET lines == Lines(content)
    IN  ReadRows(d, IF lines = <<>> THEN <<>> ELSE Tail(lines))

read_from_file(readable) ==
    /\ pc = "idle"
    /\ fig' = NoFig
    /\ cache # <<>>
    /\ LET r == IF readable THEN ReadCache(ip_locations, cache[1])
                ELSE [d |-> ip_locations, ok |-> FALSE]
       IN  /\ ip_locations' = r.d
           /\ last' = Op("load", IF r.ok THEN "" ELSE "logged", ip_locations = <<>>)
    /\ res' = <<>>
    /\ net' = <<>>
    /\ asked' = NoAsk
    /\ calls' = <<>>
    /\ UNCHANGED <<blacklisted_ips, cache, first, failed, frame>>

read_from_file_absent ==
    /\ pc = "idle"
    /\ fig' = NoFig
    /\ cache = <<>>
    /\ last' = Op("load", "", ip_locations = <<>>)
    /\ res' = <<>>
    /\ net' = <<>>
    /\ asked' = NoAsk
    /\ calls' = <<>>
    /\ UNCHANGED <<ip_locations, blacklisted_ips, cache, first, failed, frame>>

(***************************************************************************)
(* write_to_file.  Every write() is one step of the text; a failure after  *)
(* k writes leaves the text of those k writes in the file, a failure of    *)
(* open leaves the file as it was.                                         *)
(***************************************************************************)
Header ==
    <<"i", "p", ",", "l", "a", "t", "i", "t", "u", "d", "e", ",",
      "l", "o", "n", "g", "i", "t", "u", "d", "e", "\n">>

Row(e) == e.ip \o <<",", " ">> \o Format(e.loc[1]) \o <<",", " ">> \o Format(e.loc[2]) \o <<"\n">>

RECURSIVE Rows(_, _)
Rows(d, k) == IF k = 0 THEN <<>> ELSE Rows(d, k - 1) \o Row(d[k])

\* write_to_file without line 39
Written_noheader(d, k) == IF k = 0 THEN <<>> ELSE Rows(d, k - 1)

\* the text after the first k calls of write
Written(d, k) == IF k = 0 THEN <<>> ELSE Header \o Rows(d, k - 1)

write_to_file(opened, k) ==
    /\ pc = "idle"
    /\ fig' = NoFig
    /\ cache' = IF opened THEN <<Written(ip_locations, k)>> ELSE cache
    /\ last' = Op("save", IF opened /\ k = Len(ip_locations) + 1 THEN "" ELSE "logged", FALSE)
    /\ res' = <<>>
    /\ net' = <<>>
    /\ asked' = NoAsk
    /\ calls' = <<>>
    /\ UNCHANGED <<ip_locations, blacklisted_ips, first, failed, frame>>

(***************************************************************************)
(* get_lat_lon                                                             *)
(***************************************************************************)
Result(r, d, b, n) == [res |-> r, locs |-> d, bl |-> b, net |-> n]

NotUsable(o) ==
    \/ o.lat = Missing \/ o.lon = Missing
    \/ o.lat = NotFound \/ o.lon = NotFound \/ o.lat = PyNone \/ o.lon = PyNone

\* get_lat_lon without its elif: a cached address is looked up again
get_lat_lon_nocache(d, b, ip_addr, o) ==
    IF ip_addr \in b THEN Result(<<>>, d, b, FALSE)
    ELSE IF ~o.ok THEN Result(<<>>, d, b, TRUE)
    ELSE IF NotUsable(o) THEN Result(<<>>, d, b \cup {ip_addr}, TRUE)
    ELSE Result(<<o.lat, o.lon>>, Put(d, ip_addr, <<o.lat, o.lon>>), b, TRUE)

\* get_lat_lon without its first if: a blacklisted address is looked up again
get_lat_lon_noblacklist(d, b, ip_addr, o) ==
    IF ip_addr \in Keys(d) THEN Result(Get(d, ip_addr), d, b, FALSE)
    ELSE IF ~o.ok THEN Result(<<>>, d, b, TRUE)
    ELSE IF NotUsable(o) THEN Result(<<>>, d, b \cup {ip_addr}, TRUE)
    ELSE Result(<<o.lat, o.lon>>, Put(d, ip_addr, <<o.lat, o.lon>>), b, TRUE)

\* get_lat_lon whose except clause blacklists the address
get_lat_lon_except(d, b, ip_addr, o) ==
    IF ip_addr \in b THEN Result(<<>>, d, b, FALSE)
    ELSE IF ip_addr \in Keys(d) THEN Result(Get(d, ip_addr), d, b, FALSE)
    ELSE IF ~o.ok THEN Result(<<>>, d, b \cup {ip_addr}, TRUE)
    ELSE IF NotUsable(o) THEN Result(<<>>, d, b \cup {ip_addr}, TRUE)
    ELSE Result(<<o.lat, o.lon>>, Put(d, ip_addr, <<o.lat, o.lon>>), b, TRUE)

\* get_lat_lon whose test of line 59 wants both fields unusable
get_lat_lon_both(d, b, ip_addr, o) ==
    IF ip_addr \in b THEN Result(<<>>, d, b, FALSE)
    ELSE IF ip_addr \in Keys(d) THEN Result(Get(d, ip_addr), d, b, FALSE)
    ELSE IF ~o.ok THEN Result(<<>>, d, b, TRUE)
    ELSE IF o.lat = Missing \/ o.lon = Missing
         THEN Result(<<>>, d, b \cup {ip_addr}, TRUE)
    ELSE IF (o.lat = NotFound /\ o.lon = NotFound) \/ (o.lat = PyNone /\ o.lon = PyNone)
         THEN Result(<<>>, d, b \cup {ip_addr}, TRUE)
    ELSE Result(<<o.lat, o.lon>>, Put(d, ip_addr, <<o.lat, o.lon>>), b, TRUE)

get_lat_lon(d, b, ip_addr, o) ==
    IF ip_addr \in b THEN Result(<<>>, d, b, FALSE)
    ELSE IF ip_addr \in Keys(d) THEN Result(Get(d, ip_addr), d, b, FALSE)
    ELSE IF ~o.ok THEN Result(<<>>, d, b, TRUE)
    ELSE IF o.lat = Missing \/ o.lon = Missing
         THEN Result(<<>>, d, b \cup {ip_addr}, TRUE)
    ELSE IF o.lat = NotFound \/ o.lon = NotFound \/ o.lat = PyNone \/ o.lon = PyNone
         THEN Result(<<>>, d, b \cup {ip_addr}, TRUE)
    ELSE Result(<<o.lat, o.lon>>, Put(d, ip_addr, <<o.lat, o.lon>>), b, TRUE)

\* one call of get_lat_lon on the object, with the provider answering o;
\* before is the lookups of the running operation so far
Call(before, ip_addr, o) ==
    LET r == get_lat_lon(ip_locations, blacklisted_ips, ip_addr, o)
    IN  /\ ip_locations' = r.locs
        /\ blacklisted_ips' = r.bl
        /\ res' = r.res
        /\ net' = IF r.net THEN Append(before, ip_addr) ELSE before
        /\ first' = IF r.res # <<>> /\ first[ip_addr] = <<>>
                    THEN [first EXCEPT ![ip_addr] = r.res] ELSE first
        /\ failed' = IF r.net /\ ~o.ok THEN failed \cup {ip_addr} ELSE failed
        /\ calls' = Append(IF pc = "idle" THEN <<>> ELSE calls,
                           [addr |-> ip_addr, res |-> r.res])

Resolve(ip_addr, o) ==
    /\ pc = "idle"
    /\ Call(<<>>, ip_addr, o)
    /\ last' = Op("resolve", "", FALSE)
    /\ fig' = NoFig
    /\ asked' = NoAsk
    /\ UNCHANGED <<cache, frame>>

\* the process exits and a new one constructs a Trace; the file stays
Restart ==
    /\ pc = "idle"
    /\ ip_locations' = <<>>
    /\ blacklisted_ips' = {}
    /\ res' = <<>>
    /\ net' = <<>>
    /\ last' = Op("init", "", TRUE)
    /\ first' = [a \in Addrs |-> <<>>]
    /\ failed' = {}
    /\ fig' = NoFig
    /\ asked' = NoAsk
    /\ calls' = <<>>
    /\ UNCHANGED <<cache, frame>>

(***************************************************************************)
(* trace.  One step for the probe, one for each reply of the loop, one for *)
(* the lookup of the destination, one for the rest.  byte_count and hits   *)
(* are first read when the figure is built and are drawn there.            *)
(***************************************************************************)
HopText(k) == <<"h", "o", "p", " ">> \o Digits(k) \o <<":", " ">>

\* trace catching the exception of the probe and returning an empty figure
TraceProbeFails_caught ==
    /\ pc = "idle"
    /\ last' = Op("trace", "", FALSE)
    /\ res' = <<>>
    /\ net' = <<>>
    /\ fig' = [NoFig EXCEPT !.mode = "markers+lines"]
    /\ asked' = NoAsk
    /\ calls' = <<>>
    /\ UNCHANGED <<ip_locations, blacklisted_ips, cache, first, failed, frame>>

\* traceroute / traceroute6 (or ip_address) raises: trace raises
TraceProbeFails ==
    /\ pc = "idle"
    /\ last' = Op("trace", "raised", FALSE)
    /\ res' = <<>>
    /\ net' = <<>>
    /\ fig' = NoFig
    /\ asked' = NoAsk
    /\ calls' = <<>>
    /\ UNCHANGED <<ip_locations, blacklisted_ips, cache, first, failed, frame>>

TraceProbe(dst, names, replies) ==
    /\ pc = "idle"
    /\ pc' = "hops"
    /\ ip' = dst
    /\ display_name' = names
    /\ ans' = replies
    /\ lats' = <<>>
    /\ lons' = <<>>
    /\ text' = <<>>
    /\ received' = {}
    /\ count' = 1
    /\ res' = <<>>
    /\ net' = <<>>
    /\ fig' = NoFig
    /\ last' = Op("trace", "running", FALSE)
    /\ asked' = [dst |-> dst, names |-> names, replies |-> replies]
    /\ calls' = <<>>
    /\ UNCHANGED <<ip_locations, blacklisted_ips, cache, first, failed>>

\* the loop with count += 1 outside the if of line 80
TraceHop_counts(o) ==
    /\ pc = "hops"
    /\ ans # <<>>
    /\ LET src == Head(ans)
       IN  /\ Call(net, src, o)
           /\ IF res' # <<>>
              THEN /\ lats' = Append(lats, res'[1])
                   /\ lons' = Append(lons, res'[2])
                   /\ text' = Append(text, HopText(count) \o (IF display_name THEN src ELSE <<>>))
                   /\ received' = received \cup {src}
              ELSE UNCHANGED <<lats, lons, text, received>>
    /\ count' = count + 1
    /\ ans' = Tail(ans)
    /\ UNCHANGED <<pc, ip, display_name, cache, last, fig, asked>>

\* the loop visiting the replies from the last to the first
TraceHop_reversed(o) ==
    /\ pc = "hops"
    /\ ans # <<>>
    /\ LET src == ans[Len(ans)]
       IN  /\ Call(net, src, o)
           /\ IF res' # <<>>
              THEN /\ lats' = Append(lats, res'[1])
                   /\ lons' = Append(lons, res'[2])
                   /\ text' = Append(text, HopText(count) \o (IF display_name THEN src ELSE <<>>))
                   /\ received' = received \cup {src}
                   /\ count' = count + 1
              ELSE UNCHANGED <<lats, lons, text, received, count>>
    /\ ans' = SubSeq(ans, 1, Len(ans) - 1)
    /\ UNCHANGED <<pc, ip, display_name, cache, last, fig, asked>>

TraceHop(o) ==
    /\ pc = "hops"
    /\ ans # <<>>
    /\ LET src == Head(ans)
       IN  /\ Call(net, src, o)
           /\ IF res' # <<>>
              THEN /\ lats' = Append(lats, res'[1])
                   /\ lons' = Append(lons, res'[2])
                   /\ text' = Append(text, HopText(count) \o (IF display_name THEN src ELSE <<>>))
                   /\ received' = received \cup {src}
                   /\ count' = count + 1
              ELSE UNCHANGED <<lats, lons, text, received, count>>
    /\ ans' = Tail(ans)
    /\ UNCHANGED <<pc, ip, display_name, cache, last, fig, asked>>

\* lines 89-95 without the test of line 89
TraceTerminal_always(o) ==
    /\ pc = "hops"
    /\ ans = <<>>
    /\ Call(net, ip, o)
    /\ IF res' # <<>>
       THEN /\ lats' = Append(lats, res'[1])
            /\ lons' = Append(lons, res'[2])
            /\ text' = Append(text, HopText(count) \o ip)
       ELSE UNCHANGED <<lats, lons, text>>
    /\ pc' = "figure"
    /\ UNCHANGED <<ip, display_name, ans, received, count, cache, last, fig, asked>>

\* line 95 labelling the destination as line 84 labels a reply
TraceTerminal_label(o) ==
    /\ pc = "hops"
    /\ ans = <<>>
    /\ ip \notin received
    /\ Call(net, ip, o)
    /\ IF res' # <<>>
       THEN /\ lats' = Append(lats, res'[1])
            /\ lons' = Append(lons, res'[2])
            /\ text' = Append(text, HopText(count) \o (IF display_name THEN ip ELSE <<>>))
       ELSE UNCHANGED <<lats, lons, text>>
    /\ pc' = "figure"
    /\ UNCHANGED <<ip, display_name, ans, received, count, cache, last, fig, asked>>

TraceTerminal(o) ==
    /\ pc = "hops"
    /\ ans = <<>>
    /\ ip \notin received
    /\ Call(net, ip, o)
    /\ IF res' # <<>>
       THEN /\ lats' = Append(lats, res'[1])
            /\ lons' = Append(lons, res'[2])
            /\ text' = Append(text, HopText(count) \o ip)
       ELSE UNCHANGED <<lats, lons, text>>
    /\ pc' = "figure"
    /\ UNCHANGED <<ip, display_name, ans, received, count, cache, last, fig, asked>>

\* line 113 with round() for int(): the nearest whole number to log(b)
IntLog_round(b) == IF b >= 34 THEN 4 ELSE IF b >= 13 THEN 3 ELSE IF b >= 5 THEN 2
                   ELSE IF b >= 2 THEN 1 ELSE 0

\* int(math.log(b)) for b >= 1: the largest k with e^k <= b
IntLog(b) == IF b >= 55 THEN 4 ELSE IF b >= 21 THEN 3 ELSE IF b >= 8 THEN 2
             ELSE IF b >= 3 THEN 1 ELSE 0

Packets == <<" ", "p", "a", "c", "k", "e", "t", "s", ",", " ">>

Bytes == <<" ", "b", "y", "t", "e", "s">>

\* dns is what gethostbyaddr gives: <<>> when it raises, else <<hostname>>
Name(dst, names, dns) ==
    IF names
    THEN (IF dns # <<>> THEN dns[1] \o <<" ", "|", " ">> ELSE <<>>)
         \o <<" ">> \o dst \o <<"<", "b", "r", ">">>
    ELSE <<>>

\* lines 101-106 without the try: a failure of gethostbyaddr leaves trace
TraceFigure_dns(hits, byte_count, dns) ==
    /\ \/ pc = "figure"
       \/ pc = "hops" /\ ans = <<>> /\ ip \in received
    /\ IF byte_count <= 0 \/ (display_name /\ dns = <<>>)
       THEN /\ fig' = NoFig
            /\ last' = Op("trace", "raised", FALSE)
       ELSE /\ fig' = [mode |-> IF Len(lats) = 1 THEN "markers" ELSE "markers+lines",
                       lon |-> lons, lat |-> lats, text |-> text,
                       name |-> Name(ip, display_name, dns) \o Digits(hits) \o Packets
                                \o Digits(byte_count) \o Bytes,
                       width2 |-> IntLog(byte_count)]
            /\ last' = Op("trace", "", FALSE)
    /\ Return
    /\ UNCHANGED <<ip_locations, blacklisted_ips, cache, res, net, first, failed, asked, calls>>

\* line 98 with <= 1 for == 1
TraceFigure_mode(hits, byte_count, dns) ==
    /\ \/ pc = "figure"
       \/ pc = "hops" /\ ans = <<>> /\ ip \in received
    /\ IF byte_count <= 0
       THEN /\ fig' = NoFig
            /\ last' = Op("trace", "raised", FALSE)
       ELSE /\ fig' = [mode |-> IF Len(lats) <= 1 THEN "markers" ELSE "markers+lines",
                       lon |-> lons, lat |-> lats, text |-> text,
                       name |-> Name(ip, display_name, dns) \o Digits(hits) \o Packets
                                \o Digits(byte_count) \o Bytes,
                       width2 |-> IntLog(byte_count)]
            /\ last' = Op("trace", "", FALSE)
    /\ Return
    /\ UNCHANGED <<ip_locations, blacklisted_ips, cache, res, net, first, failed, asked, calls>>

TraceFigure(hits, byte_count, dns) ==
    /\ \/ pc = "figure"
       \/ pc = "hops" /\ ans = <<>> /\ ip \in received
    /\ IF byte_count <= 0
       THEN /\ fig' = NoFig
            /\ last' = Op("trace", "raised", FALSE)
       ELSE /\ fig' = [mode |-> IF Len(lats) = 1 THEN "markers" ELSE "markers+lines",
                       lon |-> lons, lat |-> lats, text |-> text,
                       name |-> Name(ip, display_name, dns) \o Digits(hits) \o Packets
                                \o Digits(byte_count) \o Bytes,
                       width2 |-> IntLog(byte_count)]
            /\ last' = Op("trace", "", FALSE)
    /\ Return
    /\ UNCHANGED <<ip_locations, blacklisted_ips, cache, res, net, first, failed, asked, calls>>

(***************************************************************************)
(* Specifications.  Spec is one process working in memory: get_lat_lon and *)
(* trace.  SpecStore is the cache file across processes: read_from_file,   *)
(* write_to_file, get_lat_lon and the start of a new process.  SpecAll is  *)
(* every operation in any order.                                           *)
(***************************************************************************)
NextResolve == \E a \in Addrs, o \in Answers : Resolve(a, o)

NextTrace ==
    \/ TraceProbeFails
    \/ \E dst \in Addrs, names \in BOOLEAN, replies \in Replies : TraceProbe(dst, names, replies)
    \/ \E o \in Answers : TraceHop(o)
    \/ \E o \in Answers : TraceTerminal(o)
    \/ \E hits \in Hits, byte_count \in ByteCounts, dns \in Hostnames :
          TraceFigure(hits, byte_count, dns)

NextFile ==
    \/ \E readable \in BOOLEAN : read_from_file(readable)
    \/ read_from_file_absent
    \/ \E opened \in BOOLEAN, k \in 0..(Len(ip_locations) + 1) : write_to_file(opened, k)
    \/ Restart

Next == NextResolve \/ NextTrace

Spec == Init /\ [][Next]_vars

\* a call of trace that has begun goes on: every call it makes returns
Running ==
    \/ \E o \in Answers : TraceHop(o)
    \/ \E o \in Answers : TraceTerminal(o)
    \/ \E hits \in Hits, byte_count \in ByteCounts, dns \in Hostnames :
          TraceFigure(hits, byte_count, dns)

SpecLive == Init /\ [][Next]_vars /\ WF_vars(Running)

NextStore == NextResolve \/ NextFile

SpecStore == Init /\ [][NextStore]_vars

NextAll == NextResolve \/ NextTrace \/ NextFile

SpecAll == Init /\ [][NextAll]_vars

\* trace of a destination the probe got no reply for, with any byte count
NextHint ==
    \/ \E dst \in Addrs, names \in BOOLEAN : TraceProbe(dst, names, <<>>)
    \/ \E o \in Answers : TraceTerminal(o)
    \/ \E hits \in Hits, byte_count \in 0..MaxBytes, dns \in Hostnames :
          TraceFigure(hits, byte_count, dns)

SpecHint == Init /\ [][NextHint]_vars

(***************************************************************************)
(* Steps that are a call of get_lat_lon.                                   *)
(***************************************************************************)
\* this step is get_lat_lon(a) with the provider answering o
CallWith(a, o) ==
    \/ last'.op = "resolve" /\ Resolve(a, o)
    \/ pc = "hops" /\ ans # <<>> /\ Head(ans) = a /\ TraceHop(o)
    \/ pc = "hops" /\ ans = <<>> /\ ip = a /\ TraceTerminal(o)

CallOf(a) == \E o \in Answers : CallWith(a, o)

\* this step, a call of get_lat_lon(a), sent a request to the provider
Issued(a) == IF pc = "idle" THEN net' = <<a>> ELSE net' = Append(net, a)

NoLookup == IF pc = "idle" THEN net' = <<>> ELSE net' = net

(***************************************************************************)
(* Claims.                                                                 *)
(***************************************************************************)

\* C1: no address is at the same time a key of ip_locations and a member
\* of blacklisted_ips, whatever operations ran.
C1_Disjoint == Keys(ip_locations) \cap blacklisted_ips = {}

C3_BlacklistedStays ==
    [][\A a \in blacklisted_ips :
          /\ a \in blacklisted_ips'
          /\ CallOf(a) => (res' = <<>> /\ NoLookup)]_vars

\* get_lat_lon returned None without a lookup: its address was blacklisted
C3_Witness ==
    /\ last.op = "resolve"
    /\ res = <<>>
    /\ net = <<>>
    /\ blacklisted_ips # {}

\* C4: an entry of ip_locations keeps its key and its coordinate in every
\* later state of the process, whatever operation runs.
C4_EntriesImmutable ==
    [][last'.op # "init" =>
          \A a \in Keys(ip_locations) :
              /\ a \in Keys(ip_locations')
              /\ TupleEq(Get(ip_locations', a), Get(ip_locations, a))]_vars

\* C5: writing ip_locations to the file and reading the file into an empty
\* dict gives a dict equal to ip_locations, for every ip_locations that
\* calls of get_lat_lon and trace can build.
C5_RoundTrip ==
    DictEq(ReadCache(<<>>, Written(ip_locations, Len(ip_locations) + 1)).d, ip_locations)

\* C6: a load that fails leaves an empty ip_locations (the object being new
\* before the load): rows read before the failure are not kept.
C6_LoadAllOrNothing ==
    (last.op = "load" /\ last.end = "logged" /\ last.fresh) => ip_locations = <<>>

\* C7: when the lookup of get_lat_lon(a) fails, the call returns None and
\* leaves ip_locations and blacklisted_ips as they are; and a call for an
\* address whose lookup failed before, still in neither, sends a new request.
C7_FailureNotRemembered ==
    [][\A a \in Addrs :
          (a \notin Keys(ip_locations) /\ a \notin blacklisted_ips) =>
              /\ CallWith(a, Failure) =>
                    /\ res' = <<>>
                    /\ Issued(a)
                    /\ UNCHANGED <<ip_locations, blacklisted_ips>>
              /\ (a \in failed /\ CallOf(a)) => Issued(a)]_vars

\* an address whose lookup failed earlier in the process has been resolved
C7_Witness ==
    \E a \in failed : a \in Keys(ip_locations) /\ first[a] # <<>> /\ a \notin blacklisted_ips

\* C8: during one call of trace no address is looked up at the provider
\* more than once.
C8_OneLookupPerTrace ==
    last.op = "trace" => \A i, j \in 1..Len(net) : net[i] = net[j] => i = j

\* C9: for an address in neither collection, an answer that lacks a field
\* or holds None or 'Not found' in either field makes get_lat_lon blacklist
\* the address, leave ip_locations as it is and return None.
C9_UnusableBlacklists ==
    [][\A a \in Addrs, o \in Answers :
          (/\ a \notin Keys(ip_locations)
           /\ a \notin blacklisted_ips
           /\ o.ok
           /\ NotUsable(o)
           /\ CallWith(a, o)) =>
              /\ blacklisted_ips' = blacklisted_ips \cup {a}
              /\ UNCHANGED ip_locations
              /\ res' = <<>>]_vars

\* a lookup has just ended with its address blacklisted
C9_Witness ==
    /\ last.op = "resolve"
    /\ res = <<>>
    /\ Len(net) = 1
    /\ net[1] \in blacklisted_ips
    /\ net[1] \notin Keys(ip_locations)

\* C10: every coordinate in ip_locations is a pair of numbers.
C10_StoredAreNumbers ==
    \A k \in 1..Len(ip_locations) :
        IsNumber(ip_locations[k].loc[1]) /\ IsNumber(ip_locations[k].loc[2])

(***************************************************************************)
(* Reading a figure: the hop index and the address of a label of line 84   *)
(* or 95, and the calls of get_lat_lon that returned a coordinate.         *)
(***************************************************************************)
\* the number between 'hop ' and the first ':'
LabelIndex(label) == Number(SubSeq(label, 5, Find(label, ":") - 1))

\* what follows the first ': '
LabelAddr(label) == SubSeq(label, Find(label, ":") + 2, Len(label))

IsResolved(c) == c.res # <<>>

Resolved(cs) == SelectSeq(cs, IsResolved)

\* the last call of trace returned a figure
Returned == pc = "idle" /\ last.op = "trace" /\ last.end = ""

\* the last call of trace ended after its probe, with a figure or an exception
Finished == pc = "idle" /\ last.op = "trace" /\ asked # NoAsk

\* the calls of get_lat_lon for the replies, and whether one for ip followed
ReplyCalls == SubSeq(calls, 1, Len(asked.replies))

HasTerminal == Len(calls) = Len(asked.replies) + 1

\* C11: the hops of the returned figure are the calls of get_lat_lon that
\* returned a coordinate, in the order of the replies (the call for the
\* destination last); the k-th label carries the index k.
C11_HopsAreResolvedReplies ==
    Returned =>
        LET R == Resolved(calls)
        IN  /\ Len(fig.lat) = Len(R)
            /\ Len(fig.lon) = Len(R)
            /\ Len(fig.text) = Len(R)
            /\ \A k \in 1..Len(R) :
                  /\ fig.lat[k] = R[k].res[1]
                  /\ fig.lon[k] = R[k].res[2]
                  /\ LabelIndex(fig.text[k]) = k
            /\ \A k \in 1..Len(asked.replies) : calls[k].addr = asked.replies[k]

\* a reply that did not resolve lies between two hops: indices 1, 2
C11_Witness ==
    /\ Returned
    /\ Len(calls) = 3
    /\ calls[1].res # <<>> /\ calls[2].res = <<>> /\ calls[3].res # <<>>
    /\ Len(fig.text) = 2
    /\ LabelIndex(fig.text[2]) = 2

\* C12: after the replies, get_lat_lon is called once more, for the
\* destination, exactly when no reply from the destination resolved; when
\* that call returns a coordinate it is the last hop, with the next index;
\* otherwise the hops are the resolved replies only.
C12_TerminalHop ==
    Finished =>
        LET n == Len(asked.replies)
            R == Resolved(ReplyCalls)
            seen == {R[k].addr : k \in 1..Len(R)}
        IN  /\ Len(calls) = (IF asked.dst \in seen THEN n ELSE n + 1)
            /\ HasTerminal => calls[n + 1].addr = asked.dst
            /\ Returned =>
                  IF HasTerminal /\ calls[n + 1].res # <<>>
                  THEN /\ Len(fig.lat) = Len(R) + 1
                       /\ fig.lat[Len(R) + 1] = calls[n + 1].res[1]
                       /\ fig.lon[Len(R) + 1] = calls[n + 1].res[2]
                       /\ LabelIndex(fig.text[Len(R) + 1]) = Len(R) + 1
                       /\ LabelAddr(fig.text[Len(R) + 1]) = asked.dst
                  ELSE Len(fig.lat) = Len(R)

\* no reply and a destination that resolves: one hop
C12_Witness ==
    /\ Returned
    /\ asked.replies = <<>>
    /\ Len(calls) = 1
    /\ calls[1].res # <<>>
    /\ Len(fig.lat) = 1

\* C13: the mode of the returned figure is 'markers' exactly when it has
\* one hop, and 'markers+lines' for every other number of hops, 0 included.
C13_ModeByHopCount ==
    Returned =>
        /\ Len(fig.lat) = Len(Resolved(calls))
        /\ fig.mode = (IF Len(fig.lat) = 1 THEN "markers" ELSE "markers+lines")

\* a cached reply, then a reply the provider answers with None, None, then
\* the destination, now blacklisted: one hop, 'markers'
C13_Witness ==
    /\ Returned
    /\ Len(calls) = 3
    /\ calls[1].res # <<>> /\ calls[2].res = <<>> /\ calls[3].res = <<>>
    /\ net = <<calls[2].addr>>
    /\ calls[2].addr \in blacklisted_ips
    /\ calls[3].addr = calls[2].addr
    /\ Len(fig.lat) = 1
    /\ fig.mode = "markers"

\* C14: when the probe raises, trace raises: no call of get_lat_lon, no
\* figure, no second probe, ip_locations and blacklisted_ips as before.
C14_ProbeFailureIsFatal ==
    [][TraceProbeFails =>
          /\ last' = Op("trace", "raised", FALSE)
          /\ pc' = "idle"
          /\ fig' = NoFig
          /\ calls' = <<>>
          /\ net' = <<>>
          /\ asked' = NoAsk
          /\ UNCHANGED <<ip_locations, blacklisted_ips>>]_vars

\* a probe raised in a process that holds a coordinate and a blacklisted address
C14_Witness ==
    /\ last = Op("trace", "raised", FALSE)
    /\ asked = NoAsk
    /\ calls = <<>>
    /\ ip_locations # <<>>
    /\ blacklisted_ips # {}

\* C15: no call of trace raises after its probe has returned: a
\* byte_count <= 0 does not end in the error of math.log.
C15_ByteCountGuarded ==
    (pc = "idle" /\ last.op = "trace" /\ last.end = "raised") => asked = NoAsk

\* C16: a call of trace whose probe returned comes to its end, and with
\* byte_count >= 1 the end is a figure, whatever the provider answers and
\* whether gethostbyaddr raises or not.
C16_TraceReturns ==
    /\ [][\A hits \in Hits, byte_count \in ByteCounts, dns \in Hostnames :
             (byte_count >= 1 /\ TraceFigure(hits, byte_count, dns)) =>
                 (pc' = "idle" /\ fig' # NoFig /\ last' = Op("trace", "", FALSE))]_vars
    /\ (pc # "idle") ~> (pc = "idle")

\* a figure came back from a call in which a lookup failed, an address was
\* blacklisted and gethostbyaddr raised (the name starts with the blank of
\* line 107)
C16_Witness ==
    /\ Returned
    /\ asked.names
    /\ fig.name[1] = " "
    /\ \E k \in 1..Len(net) : net[k] \in blacklisted_ips
    /\ \E k \in 1..Len(net) : net[k] \in failed /\ net[k] \notin Keys(ip_locations)
                              /\ net[k] \notin blacklisted_ips

\* C17: write_to_file never raises and leaves ip_locations and
\* blacklisted_ips as they are; when it succeeds the file is the header
\* followed by one row for each entry of ip_locations, in order, and no
\* other row.
C17_SaveIsReadOnly ==
    /\ [][last'.op = "save" => UNCHANGED <<ip_locations, blacklisted_ips>>]_vars
    /\ [](last.op = "save" =>
            /\ last.end \in {"", "logged"}
            /\ last.end = "" =>
                  /\ cache # <<>>
                  /\ LET rows == Lines(cache[1])
                     IN  /\ Len(rows) = Len(ip_locations) + 1
                         /\ rows[1] = Header
                         /\ \A j \in 1..Len(ip_locations) :
                               LET f == Split(rows[j + 1], ",")
                               IN  /\ Len(f) = 3
                                   /\ f[1] = ip_locations[j].ip
                                   /\ Strip(f[2]) = Format(ip_locations[j].loc[1])
                                   /\ Strip(f[3]) = Format(ip_locations[j].loc[2]))

\* a save succeeded with one entry in ip_locations and an address blacklisted
C17_Witness ==
    /\ last = Op("save", "", FALSE)
    /\ Len(ip_locations) = 1
    /\ blacklisted_ips # {}
    /\ cache # <<>>
    /\ Len(Lines(cache[1])) = 2

\* the byte count a figure was made for: the digits before " bytes" at the
\* end of its name (line 112)
BytesOf(name) ==
    LET s == SubSeq(name, 1, Len(name) - Len(Bytes))
        p == CHOOSE i \in 0..Len(s) :
                 /\ i > 0 => s[i] = " "
                 /\ \A j \in (i + 1)..Len(s) : s[j] # " "
    IN  Number(SubSeq(s, p + 1, Len(s)))

\* 1000 * e^k for k = 0..5, to the nearest whole number
ExpMilli == <<1000, 2718, 7389, 20086, 54598, 148413>>

\* C18: the figure of a byte count b >= 1 has a width of floor(ln b) / 2:
\* it is not negative, it is 0 for b = 1, and no smaller byte count has a
\* larger width.  width2 is twice the width.
C18_WidthHint ==
    Returned =>
        LET b == BytesOf(fig.name)
            w == fig.width2
        IN  /\ b >= 1
            /\ w >= 0
            /\ b = 1 => w = 0
            /\ ExpMilli[w + 1] <= 1000 * b
            /\ 1000 * b < ExpMilli[w + 2]
            /\ \A b1 \in 1..b : IntLog(b1) <= w

\* a figure for at least 55 bytes: its width is 2
C18_Witness ==
    /\ Returned
    /\ BytesOf(fig.name) >= 55
    /\ fig.width2 = 4

\* the steps of one call of trace: the probe (idle to hops), the loop over
\* the replies (hops to hops), the call for the destination (hops to
\* figure) and the return (hops or figure to idle)
Steps ==
    {<<"idle", "idle">>, <<"idle", "hops">>, <<"hops", "hops">>,
     <<"hops", "figure">>, <<"hops", "idle">>, <<"figure", "idle">>}

\* C19: a call of trace probes once, before any call of get_lat_lon; it
\* calls get_lat_lon for the replies in the order the probe gave them, then
\* at most once for the destination, after every reply; it returns only
\* after all these calls, and no step is taken twice.
C19_TraceOrder ==
    [][/\ <<pc, pc'>> \in Steps
       /\ (pc = "idle" /\ pc' = "hops") => (asked' # NoAsk /\ calls' = <<>>)
       /\ pc # "idle" =>
             LET n == Len(asked.replies)
                 m == Len(calls')
             IN  /\ asked' = asked
                 /\ m <= n + 1
                 /\ m \in {Len(calls), Len(calls) + 1}
                 /\ SubSeq(calls', 1, Len(calls)) = calls
                 /\ \A k \in 1..m :
                       calls'[k].addr = (IF k <= n THEN asked.replies[k] ELSE asked.dst)
                 /\ (pc = "hops" /\ pc' = "hops") => (m = Len(calls) + 1 /\ m <= n)
                 /\ pc' = "figure" => (Len(calls) = n /\ m = n + 1)
                 /\ pc' = "idle" => (calls' = calls /\ Len(calls) >= n)
                 /\ pc = "figure" => Len(calls) = n + 1
      ]_vars

\* two replies from different addresses and the call for the destination,
\* then the return
C19_Witness ==
    /\ Returned
    /\ Len(asked.replies) = 2
    /\ asked.replies[1] # asked.replies[2]
    /\ Len(calls) = 3
    /\ calls[3].addr = asked.dst
    /\ calls[3].res = <<>>

\* C20: in the returned figure the label of a hop made from a reply ends
\* with the replying address when display_name is set and with nothing
\* after the index when it is not; the label of the hop made for the
\* destination ends with the destination in both cases.
C20_HopLabels ==
    Returned =>
        LET n == Len(asked.replies)
            R == Resolved(ReplyCalls)
        IN  /\ Len(fig.text) >= Len(R)
            /\ \A k \in 1..Len(R) :
                  /\ LabelAddr(fig.text[k]) = (IF asked.names THEN R[k].addr ELSE <<>>)
                  /\ asked.names <=> (Len(fig.text[k]) > Len(HopText(k)))
            /\ (HasTerminal /\ calls[n + 1].res # <<>>) =>
                  /\ Len(fig.text) = Len(R) + 1
                  /\ fig.text[Len(R) + 1] = HopText(Len(R) + 1) \o asked.dst

\* display_name unset: a reply hop without an address, then the hop of the
\* destination with its address
C20_Witness ==
    /\ Returned
    /\ ~asked.names
    /\ Len(asked.replies) = 1
    /\ Len(fig.text) = 2
    /\ LabelAddr(fig.text[1]) = <<>>
    /\ LabelAddr(fig.text[2]) = asked.dst

====
